---- MODULE Spec2Model ----
(***************************************************************************)
(* luminal: the route tree of src/router/src/types.rs, the routers that    *)
(* keep one tree per method, their builders, the handler service and the   *)
(* path parameters of src/pathparam.                                       *)
(*                                                                         *)
(* Strings are sequences of one-character strings, so that trimming,       *)
(* splitting on '/' and the building of a node's path are computed the way *)
(* the code computes them.  An Option is a sequence of length 0 (None) or  *)
(* 1 (Some).  A reference to a node of the tree is the node's position:    *)
(* the sequence of edges that leads to it from the root.                   *)
(***************************************************************************)
EXTENDS Integers, Sequences, FiniteSets, TLC

(***************************************************************************)
(* Bounds of the model.                                                    *)
(***************************************************************************)
\* Number of '/'-separated tokens of a route or request path given to the tree.
MaxTokens == 3
\* Number of successful RouteTree::add calls in one behaviour.
MaxAdds == 3
\* The same two bounds where the cursor of the tree is also stepped by hand.
MaxIterTokens == 2
MaxIterAdds == 2
\* The same two bounds where the routes differ in the names of their parameters;
\* the tokens are those after the leading '/'.
MaxNameTokens == 2
MaxNameAdds == 3
\* The same two bounds for the routers: tokens of a route or request path, and
\* accepted Router::add calls (made on the router or through a builder).
MaxRouterTokens == 2
MaxRouterAdds == 2
\* The same two bounds of the tree where several dispatch calls run at a time.
MaxCursorTokens == 2
MaxCursorAdds == 2
\* Number of '/'-separated tokens of a route or a path given to pathparam::parse.
MaxParseTokens == 3
\* The same two bounds of the tree where a segment may be the text "*"; the
\* tokens are those after the leading '/'.
MaxStarTokens == 2
MaxStarAdds == 2
\* The same two bounds where the cursor is stepped by hand over trees of
\* several levels; the tokens are those after the leading '/' of a route, and
\* those of the request path.
MaxWalkTokens == 2
MaxWalkAdds == 2

\* The segments the inputs are made of: the empty segment (doubled, leading
\* and trailing slashes), two static segments and a path parameter.
Segments == { <<>>, <<"a">>, <<"b">>, <<":", "a">> }
\* The segments of the routes that differ in the names of their parameters.
NameSegments == { <<"a">>, <<":", "a">>, <<":", "b">> }
\* The segments of the routes that may hold the static segment "*".
StarSegments == { <<"a">>, <<"*">>, <<":", "a">> }
\* The segments of the routes of the trees the cursor is stepped over, and the
\* tokens of the request paths given to the cursor: one that is a static
\* segment of the routes, one that is not, and the empty token.
WalkSegments == { <<"a">>, <<":", "a">> }
WalkTokens == { <<>>, <<"a">>, <<"b">> }

None == <<>>
Some(x) == <<x>>

(***************************************************************************)
(* str                                                                     *)
(***************************************************************************)
RECURSIVE trim_right_matches(_)
\* str::trim_right_matches('/'): every trailing '/' is removed.
trim_right_matches(s) ==
    IF s # <<>> /\ s[Len(s)] = "/"
    THEN trim_right_matches(SubSeq(s, 1, Len(s) - 1))
    ELSE s

RECURSIVE trim_left_matches(_)
\* str::trim_left_matches('/'): every leading '/' is removed.
trim_left_matches(s) ==
    IF s # <<>> /\ s[1] = "/"
    THEN trim_left_matches(Tail(s))
    ELSE s

RECURSIVE split(_)
\* str::split('/'): the tokens between the slashes; "" gives the one token "".
split(s) ==
    IF \E i \in 1..Len(s) : s[i] = "/"
    THEN LET i == CHOOSE j \in 1..Len(s) :
                    s[j] = "/" /\ \A k \in 1..(j - 1) : s[k] # "/"
         IN  <<SubSeq(s, 1, i - 1)>> \o split(SubSeq(s, i + 1, Len(s)))
    ELSE <<s>>

\* str::starts_with(':')
starts_with_colon(token) == token # <<>> /\ token[1] = ":"

RECURSIVE Join(_)
\* The string whose tokens are toks (the inverse of split).
Join(toks) ==
    IF Len(toks) = 1 THEN toks[1]
    ELSE toks[1] \o <<"/">> \o Join(Tail(toks))

RECURSIVE TokenSeqs(_)
TokenSeqs(n) ==
    IF n = 0 THEN { <<>> }
    ELSE { <<s>> \o t : s \in Segments, t \in TokenSeqs(n - 1) }

\* The strings of at most max tokens.
StringsUpTo(max) == UNION { { Join(t) : t \in TokenSeqs(n) } : n \in 1..max }

\* The strings the callers pass: routes to add, request paths to dispatch.
Strings == StringsUpTo(MaxTokens)
IterStrings == StringsUpTo(MaxIterTokens)
RouterStrings == StringsUpTo(MaxRouterTokens)
ParseStrings == StringsUpTo(MaxParseTokens)
CursorStrings == StringsUpTo(MaxCursorTokens)

RECURSIVE TokenSeqsOf(_, _)
TokenSeqsOf(segments, n) ==
    IF n = 0 THEN { <<>> }
    ELSE { <<s>> \o t : s \in segments, t \in TokenSeqsOf(segments, n - 1) }

\* The routes of one to MaxNameTokens segments of NameSegments: "/a", "/:a/:b".
NameStrings ==
    UNION { { <<"/">> \o Join(t) : t \in TokenSeqsOf(NameSegments, n) } : n \in 1..MaxNameTokens }

\* The routes of one to MaxWalkTokens segments of WalkSegments, and the
\* request paths of one to MaxWalkTokens tokens of WalkTokens: "a/b", "b/".
WalkStrings ==
    UNION { { <<"/">> \o Join(t) : t \in TokenSeqsOf(WalkSegments, n) } : n \in 1..MaxWalkTokens }
WalkPaths ==
    UNION { { Join(t) : t \in TokenSeqsOf(WalkTokens, n) } : n \in 1..MaxWalkTokens }

\* The routes of one to MaxStarTokens segments of StarSegments: "/a", "/*/:a".
StarStrings ==
    UNION { { <<"/">> \o Join(t) : t \in TokenSeqsOf(StarSegments, n) } : n \in 1..MaxStarTokens }

(***************************************************************************)
(* PathNode                                                                *)
(***************************************************************************)
STAR == <<"*">>

PathNode_new(path, segment, handler) ==
    [ path    |-> path,
      segment |-> segment,
      next    |-> <<>>,
      params  |-> None,
      handler |-> handler ]

\* BTreeMap::insert: the entry of key k is added, or replaced when present.
BTreeMap_insert(m, k, v) ==
    [ x \in (DOMAIN m) \cup {k} |-> IF x = k THEN v ELSE m[x] ]

\* Edges of a position.
NextEdge(token) == <<"next", token>>
ParamsEdge == <<"params">>

RECURSIVE NodeAt(_, _)
\* The node a reference (position) points to.
NodeAt(node, pos) ==
    IF pos = <<>> THEN node
    ELSE IF Head(pos) = ParamsEdge
         THEN NodeAt(node.params[1], Tail(pos))
         ELSE NodeAt(node.next[Head(pos)[2]], Tail(pos))

RECURSIVE WithNodeAt(_, _, _)
\* The tree after a write through a mutable reference: the node at pos is new.
WithNodeAt(node, pos, new) ==
    IF pos = <<>> THEN new
    ELSE IF Head(pos) = ParamsEdge
         THEN [node EXCEPT !.params = Some(WithNodeAt(node.params[1], Tail(pos), new))]
         ELSE [node EXCEPT !.next[Head(pos)[2]] =
                               WithNodeAt(node.next[Head(pos)[2]], Tail(pos), new)]

RECURSIVE Positions(_)
\* The positions of all the nodes of the tree rooted at node.
Positions(node) ==
    { <<>> }
    \cup UNION { { <<NextEdge(k)>> \o p : p \in Positions(node.next[k]) } : k \in DOMAIN node.next }
    \cup (IF node.params = None THEN {}
          ELSE { <<ParamsEdge>> \o p : p \in Positions(node.params[1]) })

(***************************************************************************)
(* RouteTree                                                               *)
(***************************************************************************)
RouteTree_empty_root == PathNode_new(<<"/">>, <<>>, None)

\* Linking a detached node under its parent, where a parameter node is told
\* by the ':' of the last segment of its path instead of by its segment "*".
Attach_ByPath(parent, node) ==
    IF starts_with_colon(split(node.path)[Len(split(node.path))])
    THEN [parent EXCEPT !.params = Some(node)]
    ELSE [parent EXCEPT !.next = BTreeMap_insert(@, node.segment, node)]

\* Linking a detached node under its parent (both branches of wire_handler).
Attach(parent, node) ==
    IF node.segment = STAR
    THEN [parent EXCEPT !.params = Some(node)]
    ELSE [parent EXCEPT !.next = BTreeMap_insert(@, node.segment, node)]

RECURSIVE WireLoop(_, _, _)
\* The while loop of wire_handler.
WireLoop(root, last_existing, created) ==
    IF created = <<>> THEN [ result |-> "Ok", root |-> root ]
    ELSE LET node == created[Len(created)]
             rest == SubSeq(created, 1, Len(created) - 1)
         IN  IF rest # <<>>
             THEN WireLoop(root, last_existing,
                           [rest EXCEPT ![Len(rest)] = Attach(@, node)])
             ELSE IF last_existing # <<>>
             THEN LET pos == last_existing[Len(last_existing)]
                  IN  WireLoop(WithNodeAt(root, pos, Attach(NodeAt(root, pos), node)),
                               SubSeq(last_existing, 1, Len(last_existing) - 1),
                               rest)
             ELSE [ result |-> "Err", root |-> root ]

\* wire_handler that sets the handler on the first node created, the one
\* nearest to the root, instead of on the last.
RouteTree_wire_handler_HandlerOnFirst(root, last_existing, created, handler) ==
    IF created = <<>>
    THEN IF last_existing # <<>>
         THEN LET pos == last_existing[Len(last_existing)]
              IN  [ result |-> "Ok",
                    root |-> WithNodeAt(root, pos,
                                 [NodeAt(root, pos) EXCEPT !.handler = Some(handler)]) ]
         ELSE [ result |-> "Ok", root |-> root ]
    ELSE WireLoop(root, last_existing,
                  [created EXCEPT ![1].handler = Some(handler)])

RouteTree_wire_handler(root, last_existing, created, handler) ==
    IF created = <<>>
    THEN IF last_existing # <<>>
         THEN LET pos == last_existing[Len(last_existing)]
              IN  [ result |-> "Ok",
                    root |-> WithNodeAt(root, pos,
                                 [NodeAt(root, pos) EXCEPT !.handler = Some(handler)]) ]
         ELSE [ result |-> "Ok", root |-> root ]
    ELSE WireLoop(root, last_existing,
                  [created EXCEPT ![Len(created)].handler = Some(handler)])

\* The fold closure of add that, when it creates a node, does not push the
\* last existing node back on its stack.
AddFoldStep_NoPushBack(root, acc, token) ==
    LET path == acc.path \o <<"/">> \o token
        last == acc.last_existing[Len(acc.last_existing)]
        popped == SubSeq(acc.last_existing, 1, Len(acc.last_existing) - 1)
        node == NodeAt(root, last)
    IN  IF acc.last_existing = <<>>
        THEN [acc EXCEPT !.panic = TRUE]
        ELSE IF starts_with_colon(token)
        THEN IF node.params = None
             THEN [acc EXCEPT !.path = path,
                              !.last_existing = popped,
                              !.created = Append(@, PathNode_new(path, STAR, None))]
             ELSE [acc EXCEPT !.path = path,
                              !.last_existing = Append(popped, last \o <<ParamsEdge>>)]
        ELSE IF token \in DOMAIN node.next
        THEN [acc EXCEPT !.path = path,
                         !.last_existing = Append(popped, last \o <<NextEdge(token)>>)]
        ELSE [acc EXCEPT !.path = path,
                         !.last_existing = popped,
                         !.created = Append(@, PathNode_new(path, token, None))]

\* One turn of the fold closure of add over a token.
AddFoldStep(root, acc, token) ==
    LET path == acc.path \o <<"/">> \o token
        last == acc.last_existing[Len(acc.last_existing)]
        popped == SubSeq(acc.last_existing, 1, Len(acc.last_existing) - 1)
        node == NodeAt(root, last)
    IN  IF acc.last_existing = <<>>
        THEN [acc EXCEPT !.panic = TRUE]
        ELSE IF starts_with_colon(token)
        THEN IF node.params = None
             THEN [acc EXCEPT !.path = path,
                              !.last_existing = Append(popped, last),
                              !.created = Append(@, PathNode_new(path, STAR, None))]
             ELSE [acc EXCEPT !.path = path,
                              !.last_existing = Append(popped, last \o <<ParamsEdge>>)]
        ELSE IF token \in DOMAIN node.next
        THEN [acc EXCEPT !.path = path,
                         !.last_existing = Append(popped, last \o <<NextEdge(token)>>)]
        ELSE [acc EXCEPT !.path = path,
                         !.last_existing = Append(popped, last),
                         !.created = Append(@, PathNode_new(path, token, None))]

RECURSIVE AddFold(_, _, _)
AddFold(root, acc, tokens) ==
    IF tokens = <<>> \/ acc.panic THEN acc
    ELSE AddFold(root, AddFoldStep(root, acc, Head(tokens)), Tail(tokens))

\* RouteTree::add where the root route replaces the root node by a fresh node
\* that carries the handler, instead of assigning the handler in place.
RouteTree_add_FreshRoot(root, route, handler) ==
    LET path == trim_right_matches(route)
        tokens == split(path)
    IN  IF tokens[1] # <<>>
        THEN [ result |-> "Err", root |-> root ]
        ELSE IF Len(tokens) = 1
        THEN [ result |-> "Ok", root |-> PathNode_new(root.path, root.segment, Some(handler)) ]
        ELSE LET acc == AddFold(root,
                                [ last_existing |-> << <<>> >>, created |-> <<>>,
                                  path |-> <<>>, panic |-> FALSE ],
                                Tail(tokens))
             IN  IF acc.panic
                 THEN [ result |-> "Panic", root |-> root ]
                 ELSE RouteTree_wire_handler(root, acc.last_existing, acc.created, handler)

\* RouteTree::add that assigns the handler to the root before it tests that
\* the route starts with a slash.
RouteTree_add_HandlerBeforeCheck(root, route, handler) ==
    LET path == trim_right_matches(route)
        tokens == split(path)
    IN  IF tokens[1] # <<>>
        THEN [ result |-> "Err", root |-> [root EXCEPT !.handler = Some(handler)] ]
        ELSE IF Len(tokens) = 1
        THEN [ result |-> "Ok", root |-> [root EXCEPT !.handler = Some(handler)] ]
        ELSE LET acc == AddFold(root,
                                [ last_existing |-> << <<>> >>, created |-> <<>>,
                                  path |-> <<>>, panic |-> FALSE ],
                                Tail(tokens))
             IN  IF acc.panic
                 THEN [ result |-> "Panic", root |-> root ]
                 ELSE RouteTree_wire_handler(root, acc.last_existing, acc.created, handler)

\* RouteTree::add: the result and the tree it leaves.
RouteTree_add(root, route, handler) ==
    LET path == trim_right_matches(route)
        tokens == split(path)
    IN  IF tokens[1] # <<>>
        THEN [ result |-> "Err", root |-> root ]
        ELSE IF Len(tokens) = 1
        THEN [ result |-> "Ok", root |-> [root EXCEPT !.handler = Some(handler)] ]
        ELSE LET acc == AddFold(root,
                                [ last_existing |-> << <<>> >>, created |-> <<>>,
                                  path |-> <<>>, panic |-> FALSE ],
                                Tail(tokens))
             IN  IF acc.panic
                 THEN [ result |-> "Panic", root |-> root ]
                 ELSE RouteTree_wire_handler(root, acc.last_existing, acc.created, handler)

\* RouteTree::iter
RouteTree_iter(tokens) == [ tokens |-> tokens, previous |-> <<>> ]

\* Iter::next with the two lookups swapped: the parameter child is tried first.
Iter_next_ParamsFirst(root, it) ==
    IF it.tokens # <<>>
    THEN LET token == Head(it.tokens)
             prev == NodeAt(root, it.previous)
         IN  IF prev.params # None
             THEN LET next == it.previous \o <<ParamsEdge>>
                  IN  [ iter |-> [ tokens |-> Tail(it.tokens), previous |-> next ],
                        item |-> Some(next) ]
             ELSE IF token \in DOMAIN prev.next
             THEN LET next == it.previous \o <<NextEdge(token)>>
                  IN  [ iter |-> [ tokens |-> Tail(it.tokens), previous |-> next ],
                        item |-> Some(next) ]
             ELSE [ iter |-> [ it EXCEPT !.tokens = Tail(@) ], item |-> None ]
    ELSE [ iter |-> it, item |-> None ]

\* Iter::next that leaves a token that matches no child in the stream.
Iter_next_KeepsTokenOnMiss(root, it) ==
    IF it.tokens # <<>>
    THEN LET token == Head(it.tokens)
             prev == NodeAt(root, it.previous)
         IN  IF token \in DOMAIN prev.next
             THEN LET next == it.previous \o <<NextEdge(token)>>
                  IN  [ iter |-> [ tokens |-> Tail(it.tokens), previous |-> next ],
                        item |-> Some(next) ]
             ELSE IF prev.params # None
             THEN LET next == it.previous \o <<ParamsEdge>>
                  IN  [ iter |-> [ tokens |-> Tail(it.tokens), previous |-> next ],
                        item |-> Some(next) ]
             ELSE [ iter |-> it, item |-> None ]
    ELSE [ iter |-> it, item |-> None ]

\* Iter::next that takes the parameter child only for a token that is not
\* empty.
Iter_next_NoEmptyParam(root, it) ==
    IF it.tokens # <<>>
    THEN LET token == Head(it.tokens)
             prev == NodeAt(root, it.previous)
         IN  IF token \in DOMAIN prev.next
             THEN LET next == it.previous \o <<NextEdge(token)>>
                  IN  [ iter |-> [ tokens |-> Tail(it.tokens), previous |-> next ],
                        item |-> Some(next) ]
             ELSE IF prev.params # None /\ token # <<>>
             THEN LET next == it.previous \o <<ParamsEdge>>
                  IN  [ iter |-> [ tokens |-> Tail(it.tokens), previous |-> next ],
                        item |-> Some(next) ]
             ELSE [ iter |-> [ it EXCEPT !.tokens = Tail(@) ], item |-> None ]
    ELSE [ iter |-> it, item |-> None ]

\* Iter::next: the cursor after the call and the node it yields, if any.
Iter_next(root, it) ==
    IF it.tokens # <<>>
    THEN LET token == Head(it.tokens)
             prev == NodeAt(root, it.previous)
         IN  IF token \in DOMAIN prev.next
             THEN LET next == it.previous \o <<NextEdge(token)>>
                  IN  [ iter |-> [ tokens |-> Tail(it.tokens), previous |-> next ],
                        item |-> Some(next) ]
             ELSE IF prev.params # None
             THEN LET next == it.previous \o <<ParamsEdge>>
                  IN  [ iter |-> [ tokens |-> Tail(it.tokens), previous |-> next ],
                        item |-> Some(next) ]
             ELSE [ iter |-> [ it EXCEPT !.tokens = Tail(@) ], item |-> None ]
    ELSE [ iter |-> it, item |-> None ]

RECURSIVE Iterator_last_AllOrNothing(_, _, _)
\* Iterator::last made to forget the nodes yielded when a token is left over.
Iterator_last_AllOrNothing(root, it, last) ==
    LET r == Iter_next(root, it)
    IN  IF r.item = None
        THEN (IF it.tokens = <<>> THEN last ELSE None)
        ELSE Iterator_last_AllOrNothing(root, r.iter, r.item)

RECURSIVE Iterator_last_Backtracking(_, _, _)
\* A walk that tries the static child and then the parameter child for each
\* token, and keeps the deeper of the two nodes reached.
Iterator_last_Backtracking(root, it, last) ==
    IF it.tokens = <<>> THEN last
    ELSE LET token == Head(it.tokens)
             prev == NodeAt(root, it.previous)
             static == IF token \in DOMAIN prev.next
                       THEN LET next == it.previous \o <<NextEdge(token)>>
                            IN  Iterator_last_Backtracking(root,
                                    [ tokens |-> Tail(it.tokens), previous |-> next ],
                                    Some(next))
                       ELSE last
             param == IF prev.params # None
                      THEN LET next == it.previous \o <<ParamsEdge>>
                           IN  Iterator_last_Backtracking(root,
                                   [ tokens |-> Tail(it.tokens), previous |-> next ],
                                   Some(next))
                      ELSE last
         IN  IF param # None /\ (static = None \/ Len(param[1]) > Len(static[1]))
             THEN param ELSE static

RECURSIVE Iterator_last(_, _, _)
\* Iterator::last: next is called until it yields None; the last node yielded.
Iterator_last(root, it, last) ==
    LET r == Iter_next(root, it)
    IN  IF r.item = None THEN last
        ELSE Iterator_last(root, r.iter, r.item)

\* What dispatch hands back for the node at pos.
Found(root, pos) ==
    [ path |-> NodeAt(root, pos).path, handler |-> NodeAt(root, pos).handler, node |-> pos ]

\* RouteTree::dispatch
RouteTree_dispatch(root, request_path) ==
    LET path == trim_left_matches(request_path)
    IN  IF path = <<>>
        THEN Some(Found(root, <<>>))
        ELSE LET found == Iterator_last(root, RouteTree_iter(split(path)), None)
             IN  IF found # None THEN Some(Found(root, found[1])) ELSE None

(***************************************************************************)
(* hyper: the responses and futures the routers hand back.                 *)
(***************************************************************************)
StatusCode_Ok == 200
StatusCode_NotFound == 404
StatusCode_InternalServerError == 500

\* Response::new(): status 200, no header, empty body.
Response_new == [ status |-> StatusCode_Ok, headers |-> {}, body |-> <<>> ]
with_status(response, status) == [response EXCEPT !.status = status]
with_header(response, header) == [response EXCEPT !.headers = @ \cup {header}]
with_body(response, body) == [response EXCEPT !.body = body]

\* future::ok(response), and a future that fails with a hyper::Error.
future_ok(response) == [ result |-> "Ok", response |-> response ]
future_err == [ result |-> "Err" ]

\* The responses the handlers of the model build: a header, a body, any status.
Responses ==
    { with_body(with_header(with_status(Response_new, status), "ContentLength"), <<"b">>) :
        status \in { StatusCode_Ok, StatusCode_NotFound, StatusCode_InternalServerError } }

\* What the future of a Service resolves to.
Futures == { future_ok(response) : response \in Responses } \cup { future_err }

\* What Handler::handle returns to the handler router: Result<Response, Response>.
HandlerResults ==
    [ kind : { "Ok", "Err" }, response : Responses ]

\* What Handler::handle returns to HandlerService: Result<LuminalFuture, Response>.
HandlerFutureResults ==
    { [ kind |-> "Ok", future |-> f ] : f \in Futures }
    \cup { [ kind |-> "Err", response |-> r ] : r \in Responses }

(***************************************************************************)
(* HandlerService                                                          *)
(***************************************************************************)
\* HandlerService::call, for what the owned handler returns.
HandlerService_call(handled) ==
    IF handled.kind = "Ok" THEN handled.future ELSE future_ok(handled.response)

(***************************************************************************)
(* Router: a RouteTree per hyper::Method.                                  *)
(***************************************************************************)
Methods == { "Get", "Post" }

\* HashMap::new()
HashMap_new == <<>>

\* The services and handlers the callers pass are opaque; id tells them apart.
\* handler_fn and service_fn wrap a function into a value that calls it.
Target(id) == [ wrapper |-> "none", id |-> id ]
handler_fn(function) == [function EXCEPT !.wrapper = "HandlerFn"]
service_fn(function) == [function EXCEPT !.wrapper = "ServiceFn"]

\* Route::new
Route_new(route_path, target) == [ route_path |-> route_path, target |-> target ]

\* HashMap::entry(k).or_insert_with(f)
HashMap_or_insert_with(m, k, v) ==
    IF k \in DOMAIN m THEN m ELSE [ x \in (DOMAIN m) \cup {k} |-> IF x = k THEN v ELSE m[x] ]

\* Router::add that sends the route to the tree of every method in the table.
Router_add_EveryTree(routes, method, route, target) ==
    LET with == HashMap_or_insert_with(routes, method, RouteTree_empty_root)
        r == RouteTree_add(with[method], route, Route_new(route, target))
    IN  [ result |-> r.result,
          routes |-> [ m \in DOMAIN with |->
                         RouteTree_add(with[m], route, Route_new(route, target)).root ] ]

\* Router::add: the result and the table it leaves.  The tree of the method
\* is created before the route is handed to it.
Router_add(routes, method, route, target) ==
    LET with == HashMap_or_insert_with(routes, method, RouteTree_empty_root)
        r == RouteTree_add(with[method], route, Route_new(route, target))
    IN  [ result |-> r.result, routes |-> [with EXCEPT ![method] = r.root] ]

\* Router::dispatch that reads an empty tree for a method without a tree.
Router_dispatch_EmptyTree(routes, method, route_path) ==
    LET routing == IF method \in DOMAIN routes THEN routes[method] ELSE RouteTree_empty_root
        found == RouteTree_dispatch(routing, route_path)
    IN  IF found # None THEN Some(found[1].handler) ELSE None

\* Router::dispatch: the handler option of the node the tree of the method finds.
Router_dispatch(routes, method, route_path) ==
    IF method \in DOMAIN routes
    THEN LET found == RouteTree_dispatch(routes[method], route_path)
         IN  IF found # None THEN Some(found[1].handler) ELSE None
    ELSE None

\* Router::call that answers a matched path without a handler with the
\* response as created, its status not set.
Router_call_StatusNotSet(routes, req, reply) ==
    LET route == Router_dispatch(routes, req.method, req.path)
    IN  IF route # None /\ route[1] # None
        THEN [ invoked |-> << [ target |-> route[1][1].target, request |-> req ] >>,
               future |-> reply ]
        ELSE IF route = None
        THEN [ invoked |-> <<>>,
               future |-> future_ok(with_status(Response_new, StatusCode_NotFound)) ]
        ELSE [ invoked |-> <<>>, future |-> future_ok(Response_new) ]

\* Router::call of the service routers: the calls it makes and the future it
\* returns, reply being the future the matched service returns.
Router_call(routes, req, reply) ==
    LET route == Router_dispatch(routes, req.method, req.path)
    IN  IF route # None /\ route[1] # None
        THEN [ invoked |-> << [ target |-> route[1][1].target, request |-> req ] >>,
               future |-> reply ]
        ELSE [ invoked |-> <<>>,
               future |-> future_ok(with_status(Response_new, StatusCode_NotFound)) ]

\* Router::call of the handler router with every error answered by 500.
HandlerRouter_call_InternalError(routes, req, handled) ==
    LET route == Router_dispatch(routes, req.method, req.path)
    IN  IF route # None /\ route[1] # None
        THEN [ invoked |-> << [ target |-> route[1][1].target, request |-> req ] >>,
               future |->
                   IF handled.kind = "Ok" THEN future_ok(handled.response)
                   ELSE future_ok(with_body(with_status(Response_new,
                                                        StatusCode_InternalServerError),
                                            handled.response.body)) ]
        ELSE [ invoked |-> <<>>,
               future |-> future_ok(with_status(Response_new, StatusCode_NotFound)) ]

\* Router::call of the handler router, handled being what the matched handler
\* returns: an error is answered by a new response with its status and body.
HandlerRouter_call(routes, req, handled) ==
    LET route == Router_dispatch(routes, req.method, req.path)
    IN  IF route # None /\ route[1] # None
        THEN [ invoked |-> << [ target |-> route[1][1].target, request |-> req ] >>,
               future |->
                   IF handled.kind = "Ok" THEN future_ok(handled.response)
                   ELSE future_ok(with_body(with_status(Response_new,
                                                        handled.response.status),
                                            handled.response.body)) ]
        ELSE [ invoked |-> <<>>,
               future |-> future_ok(with_status(Response_new, StatusCode_NotFound)) ]

(***************************************************************************)
(* The route builders.  A builder owns the router it builds; its kind is   *)
(* the type of the builder.                                                *)
(***************************************************************************)
BuilderKinds ==
    { "handler::HandlerRouteBuilder", "handler::FnRouteBuilder",
      "service::ServiceRouteBuilder", "service::FnRouteBuilder" }

\* fn_builder, handler_builder and service_builder: the type each is called on
\* and the type it returns.
Conversions ==
    { << "handler::HandlerRouteBuilder", "handler::FnRouteBuilder" >>,
      << "handler::FnRouteBuilder", "handler::HandlerRouteBuilder" >>,
      << "service::ServiceRouteBuilder", "service::FnRouteBuilder" >>,
      << "service::FnRouteBuilder", "service::ServiceRouteBuilder" >> }

\* The builders that have the method: service::FnRouteBuilder has no post.
HasMethod(kind, method) ==
    method = "Get" \/ (method = "Post" /\ kind # "service::FnRouteBuilder")

\* HandlerRouteBuilder::new, FnRouteBuilder::new, ServiceRouteBuilder::new
RouteBuilder_new(kind) == [ kind |-> kind, router |-> HashMap_new ]

\* What get and post of a builder pass to Router::add for the value given.
RouteBuilder_target(kind, value) ==
    IF kind = "handler::FnRouteBuilder" THEN handler_fn(value)
    ELSE IF kind = "service::FnRouteBuilder" THEN service_fn(value)
    ELSE value

\* get and post: the result, and the builder handed back when it is Ok.
RouteBuilder_add(builder, method, route, value) ==
    LET r == Router_add(builder.router, method, route,
                        RouteBuilder_target(builder.kind, value))
    IN  [ result |-> r.result, builder |-> [builder EXCEPT !.router = r.routes] ]

\* A conversion that makes the new builder with new() of its type.
RouteBuilder_convert_New(builder, kind) == RouteBuilder_new(kind)

\* fn_builder, handler_builder, service_builder: the router moves to the new builder.
RouteBuilder_convert(builder, kind) == [ kind |-> kind, router |-> builder.router ]

\* build
RouteBuilder_build(builder) == builder.router

(***************************************************************************)
(* pathparam                                                               *)
(***************************************************************************)
\* A zip that goes on to the end of the longer of the two, pairing the items
\* left over with the empty string.
zip_Longest(a, b) ==
    [ i \in 1..(IF Len(a) < Len(b) THEN Len(b) ELSE Len(a)) |->
        << IF i <= Len(a) THEN a[i] ELSE <<>>, IF i <= Len(b) THEN b[i] ELSE <<>> >> ]

\* Iterator::zip: the pairs of the items at the same index, as many as the
\* shorter of the two has.
zip(a, b) ==
    [ i \in 1..(IF Len(a) < Len(b) THEN Len(a) ELSE Len(b)) |-> << a[i], b[i] >> ]

\* pathparam::parse
pathparam_parse(route, path) == [ source |-> zip(split(route), split(path)) ]

\* Parse::next that ends at the first key that is not a parameter.
Parse_next_StopAtStatic(parse) ==
    IF parse.source # <<>>
    THEN LET key == Head(parse.source)[1]
         IN  IF starts_with_colon(key)
             THEN [ parse |-> [ source |-> Tail(parse.source) ],
                    item |-> Some(Head(parse.source)) ]
             ELSE [ parse |-> [ source |-> Tail(parse.source) ], item |-> None ]
    ELSE [ parse |-> parse, item |-> None ]

RECURSIVE Parse_next(_)
\* Parse::next: the iterator after the call and the pair it yields, if any.
Parse_next(parse) ==
    IF parse.source # <<>>
    THEN LET key == Head(parse.source)[1]
         IN  IF starts_with_colon(key)
             THEN [ parse |-> [ source |-> Tail(parse.source) ],
                    item |-> Some(Head(parse.source)) ]
             ELSE Parse_next([ source |-> Tail(parse.source) ])
    ELSE [ parse |-> parse, item |-> None ]

(***************************************************************************)
(* The program: one tree, built by add calls and read by dispatch calls.   *)
(* add takes the tree by mutable reference and dispatch hands back         *)
(* references into it, so a call starts only when the value of the call    *)
(* before it has been let go.                                              *)
(***************************************************************************)
VARIABLES
    root,   \* RouteTree.root
    added,  \* history: the routes add accepted, in call order; the n-th passed handler n
    call,   \* the call in progress, or the value the last call returned
    routes, \* Router.routes
    asked   \* history: the methods Router::add was called for

vars == <<root, added, call, routes, asked>>

Idle == [ op |-> "idle" ]

Init ==
    /\ root = RouteTree_empty_root
    /\ added = <<>>
    /\ call = Idle
    /\ routes = HashMap_new
    /\ asked = {}

\* tree.add(route, handler), at most limit accepted routes in a behaviour.  The
\* handlers are opaque to the tree: the n-th accepted add passes handler n.
AddUpTo(route, limit) ==
    /\ call = Idle
    /\ LET handler == Len(added) + 1
           r == RouteTree_add(root, route, handler)
       IN  /\ r.result = "Ok" => Len(added) < limit
           /\ root' = r.root
           /\ added' = IF r.result = "Ok" THEN Append(added, route) ELSE added
           /\ call' = [ op |-> "add", route |-> route, handler |-> handler,
                        result |-> r.result, before |-> root ]
    /\ UNCHANGED <<routes, asked>>

Add(route) == AddUpTo(route, MaxAdds)

\* tree.dispatch(request_path)
Dispatch(request_path) ==
    /\ call = Idle
    /\ call' = [ op |-> "dispatch", request_path |-> request_path,
                 value |-> RouteTree_dispatch(root, request_path) ]
    /\ UNCHANGED <<root, added, routes, asked>>

\* The caller lets go of what the call returned, of the cursor or of the builder.
Drop ==
    /\ call # Idle
    /\ call' = Idle
    /\ UNCHANGED <<root, added, routes, asked>>

Next ==
    \/ \E route \in Strings : Add(route)
    \/ \E request_path \in Strings : Dispatch(request_path)
    \/ Drop

Spec == Init /\ [][Next]_vars

(***************************************************************************)
(* The same program, where the cursor is also created and stepped by hand, *)
(* one call of next at a time, as Iterator::last and the tests of the tree *)
(* do.                                                                     *)
(***************************************************************************)
AddIter(route) == AddUpTo(route, MaxIterAdds)

\* tree.iter(&mut tokens), for the tokens of a request path
IterBegin(request_path) ==
    /\ call = Idle
    /\ trim_left_matches(request_path) # <<>>
    /\ call' = [ op |-> "iter", request_path |-> request_path,
                 iter |-> RouteTree_iter(split(trim_left_matches(request_path))),
                 item |-> None, last |-> None, done |-> FALSE ]
    /\ UNCHANGED <<root, added, routes, asked>>

\* iter.next().  item is what the call yields; last is what Iterator::last
\* returns, the last node yielded before the first None (done).
IterNext ==
    /\ call.op = "iter"
    /\ LET r == Iter_next(root, call.iter)
       IN  call' = [ call EXCEPT !.iter = r.iter,
                                 !.item = r.item,
                                 !.last = IF ~call.done /\ r.item # None THEN r.item ELSE @,
                                 !.done = call.done \/ r.item = None ]
    /\ UNCHANGED <<root, added, routes, asked>>

NextIter ==
    \/ \E route \in IterStrings : AddIter(route)
    \/ \E request_path \in IterStrings : Dispatch(request_path)
    \/ \E request_path \in IterStrings : IterBegin(request_path)
    \/ IterNext
    \/ Drop

SpecIter == Init /\ [][NextIter]_vars

(***************************************************************************)
(* The same program, fed with routes whose parameters have different names.*)
(***************************************************************************)
AddNames(route) == AddUpTo(route, MaxNameAdds)

NextNames ==
    \/ \E route \in NameStrings : AddNames(route)
    \/ \E request_path \in NameStrings : Dispatch(request_path)
    \/ Drop

SpecNames == Init /\ [][NextNames]_vars

(***************************************************************************)
(* The same program, fed with routes and request paths whose segments may  *)
(* be the text "*", the text the tree gives to the segment of its          *)
(* parameter nodes.                                                        *)
(***************************************************************************)
AddStar(route) == AddUpTo(route, MaxStarAdds)

NextStar ==
    \/ \E route \in StarStrings : AddStar(route)
    \/ \E request_path \in StarStrings : Dispatch(request_path)
    \/ Drop

SpecStar == Init /\ [][NextStar]_vars

(***************************************************************************)
(* The same program, where the cursor is stepped by hand over trees of     *)
(* several levels.                                                         *)
(***************************************************************************)
AddWalk(route) == AddUpTo(route, MaxWalkAdds)

NextWalk ==
    \/ \E route \in WalkStrings : AddWalk(route)
    \/ \E request_path \in WalkPaths : IterBegin(request_path)
    \/ IterNext
    \/ Drop

SpecWalk == Init /\ [][NextWalk]_vars

(***************************************************************************)
(* The routers: one table of trees, filled by Router::add calls made on    *)
(* the router or through a builder, read by Router::dispatch and by the    *)
(* Service::call of the router.  Here added holds, for each accepted add,  *)
(* the method, the route and the target passed.                            *)
(***************************************************************************)
\* router.add(method, route, target); the n-th accepted add passes target n.
RouterAdd(method, route) ==
    /\ call = Idle
    /\ LET target == Target(Len(added) + 1)
           r == Router_add(routes, method, route, target)
       IN  /\ r.result = "Ok" => Len(added) < MaxRouterAdds
           /\ routes' = r.routes
           /\ added' = IF r.result = "Ok"
                       THEN Append(added, [ method |-> method, route |-> route,
                                            target |-> target ])
                       ELSE added
           /\ asked' = asked \cup {method}
           /\ call' = [ op |-> "router_add", method |-> method, route |-> route,
                        target |-> target, result |-> r.result, before |-> routes ]
    /\ UNCHANGED root

\* router.dispatch(&method, route_path)
RouterDispatch(method, route_path) ==
    /\ call = Idle
    /\ call' = [ op |-> "router_dispatch", method |-> method, route_path |-> route_path,
                 value |-> Router_dispatch(routes, method, route_path) ]
    /\ UNCHANGED <<root, added, routes, asked>>

\* router.call(req) of a service router; reply is what the service answers.
Call(method, path, reply) ==
    /\ call = Idle
    /\ LET req == [ method |-> method, path |-> path ]
           r == Router_call(routes, req, reply)
       IN  call' = [ op |-> "call", request |-> req, reply |-> reply,
                     invoked |-> r.invoked, future |-> r.future ]
    /\ UNCHANGED <<root, added, routes, asked>>

\* router.call(req) of the handler router; handled is what the handler returns.
HandlerCall(method, path, handled) ==
    /\ call = Idle
    /\ LET req == [ method |-> method, path |-> path ]
           r == HandlerRouter_call(routes, req, handled)
       IN  call' = [ op |-> "handler_call", request |-> req, handled |-> handled,
                     invoked |-> r.invoked, future |-> r.future ]
    /\ UNCHANGED <<root, added, routes, asked>>

\* service.call(request) of a HandlerService; handled is what its handler returns.
HandlerServiceCall(handled) ==
    /\ call = Idle
    /\ call' = [ op |-> "handler_service_call", handled |-> handled,
                 future |-> HandlerService_call(handled) ]
    /\ UNCHANGED <<root, added, routes, asked>>

\* A program that has configured no router starts a builder.  The call holds
\* the builder and the history of the router it owns.
BuilderNew(kind) ==
    /\ call = Idle
    /\ routes = HashMap_new
    /\ call' = [ op |-> "builder", builder |-> RouteBuilder_new(kind), added |-> <<>> ]
    /\ UNCHANGED <<root, added, routes, asked>>

\* builder.get(route, value) and builder.post(route, value): the builder is
\* handed back when the add is accepted and is gone when it is not.
BuilderAdd(method, route) ==
    /\ call.op = "builder"
    /\ HasMethod(call.builder.kind, method)
    /\ LET value == Target(Len(call.added) + 1)
           r == RouteBuilder_add(call.builder, method, route, value)
       IN  /\ r.result = "Ok" => Len(call.added) < MaxRouterAdds
           /\ call' = IF r.result = "Ok"
                      THEN [ call EXCEPT
                               !.builder = r.builder,
                               !.added = Append(@, [ method |-> method, route |-> route,
                                                     target |-> RouteBuilder_target(
                                                                    call.builder.kind, value) ]) ]
                      ELSE [ op |-> "builder_add", method |-> method, route |-> route,
                             result |-> r.result ]
    /\ UNCHANGED <<root, added, routes, asked>>

BuilderGet(route) == BuilderAdd("Get", route)
BuilderPost(route) == BuilderAdd("Post", route)

\* builder.fn_builder(), builder.handler_builder(), builder.service_builder()
BuilderConvert(kind) ==
    /\ call.op = "builder"
    /\ << call.builder.kind, kind >> \in Conversions
    /\ call' = [ call EXCEPT !.builder = RouteBuilder_convert(call.builder, kind) ]
    /\ UNCHANGED <<root, added, routes, asked>>

\* builder.build(): the router built is the router of the program.
Build ==
    /\ call.op = "builder"
    /\ routes' = RouteBuilder_build(call.builder)
    /\ added' = call.added
    /\ asked' = { call.added[i].method : i \in 1..Len(call.added) }
    /\ call' = [ op |-> "build", kind |-> call.builder.kind ]
    /\ UNCHANGED root

NextRouter ==
    \/ \E method \in Methods, route \in RouterStrings : RouterAdd(method, route)
    \/ \E method \in Methods, route_path \in RouterStrings : RouterDispatch(method, route_path)
    \/ \E method \in Methods, path \in RouterStrings, reply \in Futures :
           Call(method, path, reply)
    \/ \E method \in Methods, path \in RouterStrings, handled \in HandlerResults :
           HandlerCall(method, path, handled)
    \/ \E handled \in HandlerFutureResults : HandlerServiceCall(handled)
    \/ \E kind \in BuilderKinds : BuilderNew(kind)
    \/ \E route \in RouterStrings : BuilderGet(route)
    \/ \E route \in RouterStrings : BuilderPost(route)
    \/ \E kind \in BuilderKinds : BuilderConvert(kind)
    \/ Build
    \/ Drop

SpecRouter == Init /\ [][NextRouter]_vars

(***************************************************************************)
(* Concurrent readers: several dispatch calls run on the same tree at a    *)
(* time, each with its own tokens and its own cursor; their calls of next  *)
(* interleave in any order.  A step reads the tree and writes only the     *)
(* state of its own call, so a call of next is one step.  add needs the    *)
(* tree by mutable reference and so runs only when no dispatch is running. *)
(***************************************************************************)
\* The dispatch calls that run at a time.
Cursors == { "c1", "c2" }

AddCursors(route) == AddUpTo(route, MaxCursorAdds)

\* What dispatch returns when its cursor has yielded None: the last node yielded.
DispatchReturn(last) ==
    IF last # None THEN Some(Found(root, last[1])) ELSE None

\* The calls tree.dispatch(paths[c]) begin: each trims its path and either
\* returns the root or makes its cursor.
DispatchesBegin(paths) ==
    /\ call = Idle
    /\ call' = [ op |-> "dispatches", tree |-> root, request_path |-> paths,
                 interleaved |-> FALSE,
                 cursor |->
                     [ c \in Cursors |->
                         LET path == trim_left_matches(paths[c])
                         IN  IF path = <<>>
                             THEN [ iter |-> RouteTree_iter(<<>>), last |-> None,
                                    done |-> TRUE, value |-> Some(Found(root, <<>>)) ]
                             ELSE [ iter |-> RouteTree_iter(split(path)), last |-> None,
                                    done |-> FALSE, value |-> None ] ] ]
    /\ UNCHANGED <<root, added, routes, asked>>

\* Some call other than c is in the middle of its walk: it has made a call of
\* next and has not returned.
OthersMidWalk(c) ==
    \E d \in Cursors \ {c} :
        /\ ~call.cursor[d].done
        /\ call.cursor[d].iter.previous # <<>>

\* A step of a call that, with its own cursor, also moves the previous node
\* of every other cursor, as if the place of the traversal were kept in the tree.
CursorNext_SharedPrevious(c) ==
    /\ call.op = "dispatches"
    /\ ~call.cursor[c].done
    /\ LET cur == call.cursor[c]
           r == Iter_next(root, cur.iter)
           last == IF r.item # None THEN r.item ELSE cur.last
       IN  call' = [ call EXCEPT
                       !.interleaved = @ \/ OthersMidWalk(c),
                       !.cursor =
                       [ d \in Cursors |->
                           IF d = c
                           THEN [ iter |-> r.iter, last |-> last, done |-> r.item = None,
                                  value |-> IF r.item = None THEN DispatchReturn(last)
                                            ELSE None ]
                           ELSE [ call.cursor[d] EXCEPT !.iter.previous = r.iter.previous ] ] ]
    /\ UNCHANGED <<root, added, routes, asked>>

\* The running call c makes one call of next on its cursor, inside
\* Iterator::last; when that yields None the call returns.
CursorNext(c) ==
    /\ call.op = "dispatches"
    /\ ~call.cursor[c].done
    /\ LET cur == call.cursor[c]
           r == Iter_next(root, cur.iter)
           last == IF r.item # None THEN r.item ELSE cur.last
       IN  call' = [ call EXCEPT
                       !.interleaved = @ \/ OthersMidWalk(c),
                       !.cursor[c] =
                       [ iter |-> r.iter, last |-> last, done |-> r.item = None,
                         value |-> IF r.item = None THEN DispatchReturn(last) ELSE None ] ]
    /\ UNCHANGED <<root, added, routes, asked>>

NextCursors ==
    \/ \E route \in CursorStrings : AddCursors(route)
    \/ \E paths \in [Cursors -> CursorStrings] : DispatchesBegin(paths)
    \/ \E c \in Cursors : CursorNext(c)
    \/ Drop

SpecCursors == Init /\ [][NextCursors]_vars

(***************************************************************************)
(* pathparam: parse(route, path) has returned its iterator, and the caller *)
(* calls next on it, as collect and a for loop do.                         *)
(***************************************************************************)
InitParse ==
    /\ root = RouteTree_empty_root
    /\ added = <<>>
    /\ routes = HashMap_new
    /\ asked = {}
    /\ \E route \in ParseStrings, path \in ParseStrings :
           call = [ op |-> "parse", route |-> route, path |-> path,
                    parse |-> pathparam_parse(route, path),
                    yielded |-> <<>>, done |-> FALSE ]

\* parse.next(); yielded holds the pairs yielded before the first None (done).
ParseNext ==
    /\ call.op = "parse"
    /\ LET r == Parse_next(call.parse)
       IN  call' = [ call EXCEPT !.parse = r.parse,
                                 !.yielded = IF ~call.done /\ r.item # None
                                             THEN Append(@, r.item[1]) ELSE @,
                                 !.done = call.done \/ r.item = None ]
    /\ UNCHANGED <<root, added, routes, asked>>

NextParse == ParseNext

SpecParse == InitParse /\ [][NextParse]_vars

(***************************************************************************)
(* What the claims speak of.                                               *)
(***************************************************************************)
\* The routes accepted so far.
AddedRoutes == { added[i] : i \in 1..Len(added) }

\* A route of the pattern grammar with no empty segment ("/" itself included):
\* it begins with '/' and, its trailing slashes apart, has no doubled slash.
NoEmptySegment(route) ==
    LET tokens == split(trim_right_matches(route))
    IN  /\ route # <<>>
        /\ tokens[1] = <<>>
        /\ \A i \in 2..Len(tokens) : tokens[i] # <<>>

\* The full_path the tree reports for a route: the route without its trailing
\* slashes, "/" for the root.
TrimmedRoute(route) ==
    IF trim_right_matches(route) = <<>> THEN <<"/">> ELSE trim_right_matches(route)

\* The handler of a route: the one passed by the last add of that route.
HandlerOf(route) ==
    CHOOSE i \in 1..Len(added) :
        /\ TrimmedRoute(added[i]) = TrimmedRoute(route)
        /\ \A j \in (i + 1)..Len(added) : TrimmedRoute(added[j]) # TrimmedRoute(route)

RECURSIVE TreeAfter(_)
\* The tree after the first k accepted adds.
TreeAfter(k) ==
    IF k = 0 THEN RouteTree_empty_root
    ELSE RouteTree_add(TreeAfter(k - 1), added[k], k).root

\* C1: after any sequence of accepted adds, dispatching a route of the
\* sequence (the pattern string used as the request path) returns Some with a
\* handler, and the full_path reported is the route with its trailing slash
\* trimmed.  Stated for the routes with no empty segment.
C1_AddedRouteIsFound ==
    ( /\ call.op = "dispatch"
      /\ call.request_path \in AddedRoutes
      /\ NoEmptySegment(call.request_path) )
    => /\ call.value # None
       /\ call.value[1].handler # None
       /\ call.value[1].path = TrimmedRoute(call.request_path)

\* C2: an accepted add of a route that differs, trailing slashes apart, from
\* every route registered before removes no node and replaces no handler: each
\* node of the tree before the call is at the same position after it, with the
\* same full_path, and with the same handler if it had one; so dispatch of a
\* route registered before returns the same handler.  Stated for the routes
\* with no empty segment.
C2_AddKeepsOtherRoutes ==
    ( /\ call.op = "add"
      /\ call.result = "Ok"
      /\ \A r \in AddedRoutes : NoEmptySegment(r)
      /\ \A i \in 1..(Len(added) - 1) : TrimmedRoute(added[i]) # TrimmedRoute(call.route) )
    => /\ \A pos \in Positions(call.before) :
              /\ pos \in Positions(root)
              /\ NodeAt(root, pos).path = NodeAt(call.before, pos).path
              /\ NodeAt(call.before, pos).handler # None
                    => NodeAt(root, pos).handler = NodeAt(call.before, pos).handler
       /\ \A i \in 1..(Len(added) - 1) :
              LET was == RouteTree_dispatch(call.before, added[i])
                  is == RouteTree_dispatch(root, added[i])
              IN  (was = None /\ is = None)
                  \/ (was # None /\ is # None /\ was[1].handler = is[1].handler)

\* q is p with some of its static segments replaced by parameter segments.
ParamVariant(p, q) ==
    LET tp == split(trim_right_matches(p))
        tq == split(trim_right_matches(q))
    IN  /\ Len(tp) = Len(tq)
        /\ tp # tq
        /\ \A i \in 1..Len(tp) :
              tq[i] = tp[i] \/ (starts_with_colon(tq[i]) /\ ~starts_with_colon(tp[i]))

\* C3: when a route p that ends in a static segment and a route q that is p
\* with static segments replaced by parameters are both registered, whatever
\* the order, dispatching the path that is p itself returns p's handler.
\* Stated for the routes with no empty segment.
C3_StaticRouteBeatsParamRoute ==
    ( /\ call.op = "dispatch"
      /\ call.request_path \in AddedRoutes
      /\ NoEmptySegment(call.request_path)
      /\ call.request_path = trim_right_matches(call.request_path)
      /\ ~starts_with_colon(split(call.request_path)[Len(split(call.request_path))])
      /\ \E q \in AddedRoutes : ParamVariant(call.request_path, q) )
    => /\ call.value # None
       /\ call.value[1].handler = Some(HandlerOf(call.request_path))

RECURSIVE Stuck(_, _)
\* Some token of the cursor matches neither a static child nor the parameter
\* child of the node reached by the tokens before it.
Stuck(tree, it) ==
    /\ it.tokens # <<>>
    /\ LET r == Iter_next(tree, it)
       IN  r.item = None \/ Stuck(tree, r.iter)

\* C5: dispatch returns None when the traversal runs out of children before
\* the request path is consumed: if some token matches neither a static child
\* nor the parameter child of the node reached so far, the result is None and
\* not the node reached so far.
C5_UnmatchedTokenGivesNone ==
    ( /\ call.op = "dispatch"
      /\ trim_left_matches(call.request_path) # <<>>
      /\ Stuck(root, RouteTree_iter(split(trim_left_matches(call.request_path)))) )
    => call.value = None

RECURSIVE Deepest(_, _, _)
\* The last node visited from pos along tokens: the static child keyed by the
\* token if there is one, else the parameter child, until neither exists.
Deepest(tree, pos, tokens) ==
    IF tokens = <<>> THEN pos
    ELSE IF Head(tokens) \in DOMAIN NodeAt(tree, pos).next
    THEN Deepest(tree, pos \o <<NextEdge(Head(tokens))>>, Tail(tokens))
    ELSE IF NodeAt(tree, pos).params # None
    THEN Deepest(tree, pos \o <<ParamsEdge>>, Tail(tokens))
    ELSE pos

C4_StaticChildPreferred ==
    [][ ( /\ call.op = "iter"
          /\ call'.op = "iter"
          /\ call.iter.tokens # <<>> )
        => LET token == Head(call.iter.tokens)
               prev == call.iter.previous
           IN  /\ token \in DOMAIN NodeAt(root, prev).next
                     => call'.item = Some(prev \o <<NextEdge(token)>>)
               /\ call'.item = Some(prev \o <<ParamsEdge>>)
                     => token \notin DOMAIN NodeAt(root, prev).next ]_vars

\* The cursor has just advanced to a static child of a node that also has a
\* parameter child.
C4_Witness ==
    /\ call.op = "iter"
    /\ call.item # None
    /\ LET pos == call.item[1]
           parent == NodeAt(root, SubSeq(pos, 1, Len(pos) - 1))
       IN  /\ pos[Len(pos)] # ParamsEdge
           /\ parent.params # None

\* C7: when the request path is a proper prefix, by whole segments, of a
\* registered route and no route equal to the prefix was registered, dispatch
\* returns Some with the full_path of the prefix and no handler.  Stated for
\* the routes with no empty segment.
C7_PrefixOfRouteHasNoHandler ==
    ( /\ call.op = "dispatch"
      /\ \A r \in AddedRoutes : NoEmptySegment(r)
      /\ \A r \in AddedRoutes : TrimmedRoute(r) # TrimmedRoute(call.request_path)
      /\ \E r \in AddedRoutes :
            LET tokens == split(trim_right_matches(r))
            IN  \E k \in 1..(Len(tokens) - 1) :
                    call.request_path = TrimmedRoute(Join(SubSeq(tokens, 1, k))) )
    => /\ call.value # None
       /\ call.value[1].path = call.request_path
       /\ call.value[1].handler = None

\* C8: a trailing '/' of the request path is significant: when the node that
\* dispatch returns for a path has no static child keyed by the empty string,
\* dispatch of that path followed by '/' does not return that node.
C8_TrailingSlashIsSignificant ==
    ( /\ call.op = "dispatch"
      /\ Len(call.request_path) > 1
      /\ call.request_path[Len(call.request_path)] = "/"
      /\ trim_left_matches(SubSeq(call.request_path, 1, Len(call.request_path) - 1)) # <<>>
      /\ LET base == RouteTree_dispatch(root, SubSeq(call.request_path, 1,
                                                     Len(call.request_path) - 1))
         IN  /\ base # None
             /\ <<>> \notin DOMAIN NodeAt(root, base[1].node).next )
    => \/ call.value = None
       \/ call.value[1].node #
              RouteTree_dispatch(root, SubSeq(call.request_path, 1,
                                              Len(call.request_path) - 1))[1].node

\* C9: add returns an error for every route that does not begin with '/', the
\* empty string included, on every tree.
C9_RouteWithoutSlashIsRejected ==
    ( /\ call.op = "add"
      /\ (call.route = <<>> \/ call.route[1] # "/") )
    => call.result = "Err"

\* C10: adding a route a second time overwrites the handler of its terminal
\* node and creates no node: the tree after add(p, h1); add(p, h2) equals the
\* tree after the single add(p, h2) made in the same place, and dispatch(p)
\* returns h2.  Stated for the routes with no empty segment.
C10_ReAddOverwritesHandler ==
    ( /\ call.op = "add"
      /\ call.result = "Ok"
      /\ Len(added) >= 2
      /\ added[Len(added) - 1] = call.route
      /\ \A r \in AddedRoutes : NoEmptySegment(r) )
    => LET start == TreeAfter(Len(added) - 2)
           once == RouteTree_add(start, call.route, call.handler)
       IN  /\ root = once.root
           /\ RouteTree_dispatch(root, call.route) # None
           /\ RouteTree_dispatch(root, call.route)[1].handler = Some(call.handler)

\* C11: add("/", h) sets the handler of the root node to h and changes nothing
\* else in the tree: no node is created, and no child edge, full_path or other
\* handler changes.
C11_AddRootSetsOnlyRootHandler ==
    ( /\ call.op = "add"
      /\ call.route = <<"/">> )
    => /\ call.result = "Ok"
       /\ root = [call.before EXCEPT !.handler = Some(call.handler)]

\* add("/", h) has just returned Ok on a tree whose root had a child.
C11_Witness ==
    /\ call.op = "add"
    /\ call.route = <<"/">>
    /\ call.result = "Ok"
    /\ Positions(call.before) # { <<>> }
    /\ root.handler = Some(call.handler)

\* The accepted adds of the root route: "/", with any further trailing slashes.
RootAdds ==
    { i \in 1..Len(added) : added[i] # <<>> /\ trim_right_matches(added[i]) = <<>> }

\* C12: on every reachable tree dispatch("/") returns Some with the full_path
\* "/" and the handler option of the root: Some(h) when the last add of "/"
\* passed h, None when "/" was never added, whatever other routes exist.
C12_DispatchRootReturnsRootHandler ==
    ( /\ call.op = "dispatch"
      /\ call.request_path = <<"/">> )
    => /\ call.value # None
       /\ call.value[1].path = <<"/">>
       /\ call.value[1].handler = root.handler
       /\ call.value[1].handler =
              IF RootAdds = {} THEN None
              ELSE Some(CHOOSE i \in RootAdds : \A j \in RootAdds : j <= i)

\* q is p with the parameter segment at position k given another name.
RenamedParam(p, q, k) ==
    LET tp == split(trim_right_matches(p))
        tq == split(trim_right_matches(q))
    IN  /\ Len(tp) = Len(tq)
        /\ k \in 1..Len(tp)
        /\ starts_with_colon(tp[k])
        /\ starts_with_colon(tq[k])
        /\ tp[k] # tq[k]
        /\ \A i \in 1..Len(tp) : i # k => tp[i] = tq[i]

\* The position of the node of a route: a static segment is a child keyed by
\* the segment, a parameter segment is the parameter child.
PatternPos(tokens) ==
    [ i \in 1..Len(tokens) |->
        IF starts_with_colon(tokens[i]) THEN ParamsEdge ELSE NextEdge(tokens[i]) ]

\* The route accepted last before the add call in progress.
PreviousAdded ==
    IF call.result = "Ok" THEN added[Len(added) - 1] ELSE added[Len(added)]

\* C13: when two routes that differ only in the name of a parameter segment at
\* the same position are added one after the other, both adds succeed, the
\* tree holds a single parameter node for that position whose full_path keeps
\* the name of the first route, and the handler of the shared terminal node is
\* the one passed to the second add.
C13_FirstParameterNameIsKept ==
    \A k \in 2..(MaxNameTokens + 1) :
        ( /\ call.op = "add"
          /\ Len(added) >= (IF call.result = "Ok" THEN 2 ELSE 1)
          /\ RenamedParam(PreviousAdded, call.route, k) )
        => LET tokens == Tail(split(trim_right_matches(PreviousAdded)))
               param == PatternPos(SubSeq(tokens, 1, k - 1))
               terminal == PatternPos(tokens)
           IN  /\ call.result = "Ok"
               /\ Positions(root) = Positions(call.before)
               /\ param \in Positions(root)
               /\ NodeAt(root, param).path =
                      <<"/">> \o Join(SubSeq(tokens, 1, k - 1))
               /\ terminal \in Positions(root)
               /\ NodeAt(root, terminal).path = trim_right_matches(PreviousAdded)
               /\ NodeAt(root, terminal).handler = Some(call.handler)

\* The response of the router itself: 404 Not Found, no header, empty body.
NotFound == future_ok(with_status(Response_new, StatusCode_NotFound))

\* C14: Router.call answers with its 404 Not Found, and invokes no handler,
\* exactly when Router.dispatch returns None or Some with an inner handler
\* option of None; in every other case the matched handler is invoked exactly
\* once with the request and what it answers is what the router returns.
C14_NotFoundOrHandlerResponse ==
    call.op = "call"
    => LET route == Router_dispatch(routes, call.request.method, call.request.path)
           miss == route = None \/ route[1] = None
       IN  /\ miss => /\ call.invoked = <<>>
                      /\ call.future = NotFound
           /\ ~miss => /\ call.invoked = << [ target |-> route[1][1].target,
                                              request |-> call.request ] >>
                       /\ call.future = call.reply

\* The router has answered 404 for a path that matches a node without a
\* handler, under a method that has a route.
C14_Witness ==
    /\ call.op = "call"
    /\ Router_dispatch(routes, call.request.method, call.request.path) = Some(None)
    /\ \E i \in 1..Len(added) : added[i].method = call.request.method
    /\ call.invoked = <<>>
    /\ call.future = NotFound

\* C15: Router.dispatch(method, path) returns None for every path, "/"
\* included, when no add call was ever made for that method, whatever routes
\* were added under other methods.
C15_NoAddForMethodGivesNone ==
    ( /\ call.op = "router_dispatch"
      /\ call.method \notin asked )
    => call.value = None

\* dispatch of "/" under a method without add, on a router with a route under
\* the other method.
C15_Witness ==
    /\ call.op = "router_dispatch"
    /\ call.method \notin asked
    /\ call.route_path = <<"/">>
    /\ added # <<>>
    /\ call.value = None

\* C16: Router.add(m, pattern, h) changes only the tree of method m: for every
\* other method and every path, dispatch returns the same result before and
\* after the call.
C16_AddChangesOnlyItsMethod ==
    call.op = "router_add"
    => \A method \in Methods \ {call.method} :
           /\ (method \in DOMAIN routes) <=> (method \in DOMAIN call.before)
           /\ method \in DOMAIN routes => routes[method] = call.before[method]
           /\ \A route_path \in RouterStrings :
                  Router_dispatch(routes, method, route_path)
                      = Router_dispatch(call.before, method, route_path)

\* The same route has been added under the two methods, and each method
\* dispatches it to its own handler.
C16_Witness ==
    /\ call.op = "router_add"
    /\ call.result = "Ok"
    /\ Len(added) = 2
    /\ added[1].route = added[2].route
    /\ added[1].method # added[2].method
    /\ trim_left_matches(added[1].route) # <<>>
    /\ Router_dispatch(routes, added[1].method, added[1].route)
           = Some(Some(Route_new(added[1].route, added[1].target)))
    /\ Router_dispatch(routes, added[2].method, added[2].route)
           = Some(Some(Route_new(added[2].route, added[2].target)))

\* The handler of the call in progress was invoked and reported an error.
HandlerReportedError ==
    \/ call.op = "handler_service_call" /\ call.handled.kind = "Err"
    \/ call.op = "handler_call" /\ call.invoked # <<>> /\ call.handled.kind = "Err"

\* C17, as claimed: when the matched handler reports an error, the service
\* call still completes successfully and the response carries the status and
\* the body that the error declares, a 5xx status; the error is never turned
\* into a 404 or a 200.
C17_HandlerErrorIsA5xx ==
    HandlerReportedError
    => /\ call.future.result = "Ok"
       /\ call.future.response.status = call.handled.response.status
       /\ call.future.response.body = call.handled.response.body
       /\ call.future.response.status \in 500..599

\* C17, amended: when the matched handler reports an error, the service call
\* still completes successfully and the response carries the status and the
\* body of the error response the handler returned, whatever that status is:
\* a 5xx status when the handler chose one, and a 404 or a 200 only when the
\* handler's own error response has that status.
C17_HandlerErrorIsForwarded ==
    HandlerReportedError
    => /\ call.future.result = "Ok"
       /\ call.future.response.status = call.handled.response.status
       /\ call.future.response.body = call.handled.response.body

\* The handler a route matched has reported an error whose status is 500, and
\* the router has answered.
C17_Witness ==
    /\ call.op = "handler_call"
    /\ call.invoked # <<>>
    /\ call.handled.kind = "Err"
    /\ call.handled.response.status = StatusCode_InternalServerError
    /\ call.future.result = "Ok"

RECURSIVE RouterAfter(_)
\* The router after the first k accepted adds, made by Router::add calls on
\* an empty router.
RouterAfter(k) ==
    IF k = 0 THEN HashMap_new
    ELSE Router_add(RouterAfter(k - 1), added[k].method, added[k].route,
                    added[k].target).routes

\* C20: a router produced by any chain of builder get/post calls and builder
\* conversions followed by build() gives, for every method and path, the same
\* dispatch result as a router built by the equivalent sequence of Router.add
\* calls; converting between builder kinds loses no route.
C20_BuilderEqualsAdds ==
    call.op = "build"
    => /\ routes = RouterAfter(Len(added))
       /\ \A method \in Methods, route_path \in RouterStrings :
              Router_dispatch(routes, method, route_path)
                  = Router_dispatch(RouterAfter(Len(added)), method, route_path)

\* A router has been built by a get on a function builder, a conversion and a
\* post on the builder it gave.
C20_Witness ==
    /\ call.op = "build"
    /\ Len(added) = 2
    /\ added[1].method = "Get"
    /\ added[2].method = "Post"
    /\ added[1].target.wrapper # "none"
    /\ added[2].target.wrapper = "none"
    /\ Router_dispatch(routes, "Get", added[1].route) # None

RECURSIVE ParameterPairs(_, _, _)
\* The pairs (pattern segment i, path segment i) for the indices i from i up,
\* below the number of segments of both, at which the pattern segment begins
\* with ':', in increasing i.
ParameterPairs(pattern, path, i) ==
    IF i > Len(pattern) \/ i > Len(path) THEN <<>>
    ELSE (IF starts_with_colon(pattern[i]) THEN << << pattern[i], path[i] >> >> ELSE <<>>)
         \o ParameterPairs(pattern, path, i + 1)

\* C18: parse(pattern, path) yields exactly the pairs (pattern segment i, path
\* segment i), in increasing i, for the indices i below the number of segments
\* of both at which the pattern segment begins with ':'; the name keeps its
\* leading ':' and the value is the path segment unchanged; static pattern
\* segments that differ from the paired path segments change nothing, and
\* surplus segments on either side are dropped.
C18_ParseYieldsParameterPairs ==
    call.op = "parse"
    => LET pairs == ParameterPairs(split(call.route), split(call.path), 1)
       IN  /\ Len(call.yielded) <= Len(pairs)
           /\ call.yielded = SubSeq(pairs, 1, Len(call.yielded))
           /\ call.done => call.yielded = pairs

\* parse has yielded every pair of a pattern with a static segment that
\* differs from the segment of the path and with more segments than the path.
C18_Witness ==
    /\ call.op = "parse"
    /\ call.done
    /\ call.yielded # <<>>
    /\ Len(split(call.route)) > Len(split(call.path))
    /\ \E i \in 1..Len(split(call.path)) :
           /\ ~starts_with_colon(split(call.route)[i])
           /\ split(call.route)[i] # split(call.path)[i]
           /\ \E j \in (i + 1)..Len(split(call.path)) :
                  starts_with_colon(split(call.route)[j])

\* C19: dispatch never modifies the tree, and for any number of dispatch
\* cursors running over the same tree with their steps interleaved in any
\* order, each cursor returns the same result it returns when run alone.
C19_ConcurrentDispatchesAreIndependent ==
    call.op = "dispatches"
    => /\ root = call.tree
       /\ \A c \in Cursors :
              call.cursor[c].done
              => call.cursor[c].value = RouteTree_dispatch(call.tree, call.request_path[c])

\* Two dispatch calls have returned different nodes below the root, a step
\* of one having been made while the other was in the middle of its walk.
C19_Witness ==
    /\ call.op = "dispatches"
    /\ call.interleaved
    /\ \A c \in Cursors : call.cursor[c].done /\ call.cursor[c].value # None
    /\ \A c \in Cursors : call.cursor[c].value[1].node # <<>>
    /\ \E c, d \in Cursors : call.cursor[c].value[1].node # call.cursor[d].value[1].node

(***************************************************************************)
(* The shape of the trees that add calls build.                            *)
(***************************************************************************)
\* The node above the node at pos, and the prefix it gives to the full_path
\* of its children: its own full_path, the root counting as the empty prefix.
ParentOf(tree, pos) == NodeAt(tree, SubSeq(pos, 1, Len(pos) - 1))
ParentPrefix(tree, pos) == IF Len(pos) = 1 THEN <<>> ELSE ParentOf(tree, pos).path

\* The full_path of the node at pos is that of its parent, a '/', and the
\* static segment of the node or, on the parameter edge, a ':name'.
FullPathExtendsParent(tree, pos) ==
    LET node == NodeAt(tree, pos)
        prefix == ParentPrefix(tree, pos) \o <<"/">>
    IN  IF pos[Len(pos)] = ParamsEdge
        THEN /\ Len(node.path) > Len(prefix)
             /\ SubSeq(node.path, 1, Len(prefix)) = prefix
             /\ LET name == SubSeq(node.path, Len(prefix) + 1, Len(node.path))
                IN  starts_with_colon(name) /\ \A i \in 1..Len(name) : name[i] # "/"
        ELSE node.path = prefix \o node.segment

\* C21: in every tree built by add calls (of routes with no empty segment),
\* the full_path of each node but the root is the full_path of its parent
\* (the empty prefix for the root) followed by '/' and the static segment of
\* the node, or by ':name' when the node hangs on the parameter edge.
C21_FullPathExtendsParentPath ==
    (\A route \in AddedRoutes : NoEmptySegment(route))
        => \A pos \in Positions(root) \ { <<>> } : FullPathExtendsParent(root, pos)

RECURSIVE NewChain(_, _, _)
\* A chain of new nodes, one for each of the tokens, below the full_path
\* path, with the handler on the node of the last token.
NewChain(path, tokens, handler) ==
    LET full == path \o <<"/">> \o Head(tokens)
        segment == IF starts_with_colon(Head(tokens)) THEN STAR ELSE Head(tokens)
    IN  IF Len(tokens) = 1
        THEN PathNode_new(full, segment, Some(handler))
        ELSE LET child == NewChain(full, Tail(tokens), handler)
             IN  IF starts_with_colon(tokens[2])
                 THEN [PathNode_new(full, segment, None) EXCEPT !.params = Some(child)]
                 ELSE [PathNode_new(full, segment, None) EXCEPT
                          !.next = BTreeMap_insert(<<>>, tokens[2], child)]

RECURSIVE AddBelowLongestPrefix(_, _, _, _)
\* The subtree of node once the tokens are added below it: the existing nodes
\* are followed as long as each token has its edge, the chain of new nodes for
\* all the tokens left hangs under the last node followed, and the handler is
\* set on the node of the last token.
AddBelowLongestPrefix(node, path, tokens, handler) ==
    IF tokens = <<>> THEN [node EXCEPT !.handler = Some(handler)]
    ELSE LET token == Head(tokens)
             full == path \o <<"/">> \o token
         IN  IF starts_with_colon(token)
             THEN IF node.params # None
                  THEN [node EXCEPT !.params =
                           Some(AddBelowLongestPrefix(node.params[1], full, Tail(tokens), handler))]
                  ELSE [node EXCEPT !.params = Some(NewChain(path, tokens, handler))]
             ELSE IF token \in DOMAIN node.next
                  THEN [node EXCEPT !.next[token] =
                           AddBelowLongestPrefix(node.next[token], full, Tail(tokens), handler)]
                  ELSE [node EXCEPT !.next =
                           BTreeMap_insert(@, token, NewChain(path, tokens, handler))]

\* C22: add(p, h) reuses existing nodes only along the longest prefix of p
\* that exists from the root; from the first segment without a matching edge
\* on, every segment left becomes a new node, the chain of new nodes hangs
\* beneath the last node of that prefix, and h is set on the node of the last
\* segment of p (routes with no empty segment).
C22_AddReusesLongestExistingPrefix ==
    ( /\ call.op = "add"
      /\ call.result = "Ok"
      /\ \A route \in AddedRoutes : NoEmptySegment(route) )
        => root = AddBelowLongestPrefix(call.before, <<>>,
                       Tail(split(trim_right_matches(call.route))), call.handler)

\* The segments of a route, and a route none of whose segments begins with ':'.
SegmentsOf(route) == Tail(split(trim_right_matches(route)))
StaticRoute(route) ==
    \A i \in 1..Len(SegmentsOf(route)) : ~starts_with_colon(SegmentsOf(route)[i])

\* C23: a pattern segment that does not begin with ':' is static.  After an
\* accepted add of a pattern with no ':' segment each of its segments is the
\* key of a static child in the tree, and no parameter child was created or
\* replaced anywhere in the tree; a static child met by a dispatch has the
\* text of the request segment it was matched with.
C23_StaticSegmentIsStaticChild ==
    /\ ( call.op = "add" /\ call.result = "Ok" /\ StaticRoute(call.route) )
          => /\ \A i \in 1..Len(SegmentsOf(call.route)) :
                    \E pos \in Positions(root) :
                        SegmentsOf(call.route)[i] \in DOMAIN NodeAt(root, pos).next
             /\ \A pos \in Positions(root) :
                    NodeAt(root, pos).params # None
                        => /\ pos \in Positions(call.before)
                           /\ NodeAt(call.before, pos).params = NodeAt(root, pos).params
    /\ ( call.op = "dispatch" /\ call.value # None )
          => LET tokens == split(trim_left_matches(call.request_path))
                 node == call.value[1].node
             IN  \A i \in 1..Len(node) :
                    node[i] # ParamsEdge
                        => /\ node[i] = NextEdge(tokens[i])
                           /\ NodeAt(root, SubSeq(node, 1, i)).segment = tokens[i]

\* The accumulator the fold of add starts with: the stack holds the root.
FoldStart ==
    [ last_existing |-> << <<>> >>, created |-> <<>>, path |-> <<>>, panic |-> FALSE ]

\* C24: for every pattern that begins with '/' and every tree reached, add
\* returns Ok: before and after each token of the fold the stack of existing
\* nodes holds exactly one reference, so that neither the pop of the fold nor
\* wire_handler ever finds it empty.
C24_AddOfSlashPatternIsOk ==
    ( call.op = "add" /\ call.route # <<>> /\ call.route[1] = "/" )
        => /\ call.result = "Ok"
           /\ \A k \in 0..Len(SegmentsOf(call.route)) :
                  LET acc == AddFold(call.before, FoldStart,
                                     SubSeq(SegmentsOf(call.route), 1, k))
                  IN  ~acc.panic /\ Len(acc.last_existing) = 1

\* An add of a route of one segment at least has returned Ok on a tree that
\* held a route already.
C24_Witness ==
    /\ call.op = "add"
    /\ call.result = "Ok"
    /\ call.route # <<>>
    /\ call.route[1] = "/"
    /\ SegmentsOf(call.route) # <<>>
    /\ call.before # RouteTree_empty_root

\* C25: in every tree reached, each entry of a node's static children is
\* keyed by the segment text of the child, the node on the parameter edge has
\* the segment "*", and no static child has the segment "*".
C25_ChildrenKeyedBySegment ==
    \A pos \in Positions(root) :
        LET node == NodeAt(root, pos)
        IN  /\ \A k \in DOMAIN node.next :
                   node.next[k].segment = k /\ node.next[k].segment # STAR
            /\ node.params # None => node.params[1].segment = STAR

\* A route with the segment "*" was added, and the root has both a static
\* child and a parameter child.
C25_Witness ==
    /\ \E route \in AddedRoutes :
           \E i \in 1..Len(SegmentsOf(route)) : SegmentsOf(route)[i] = STAR
    /\ root.next # <<>>
    /\ root.params # None

\* C26: in every tree reached, no node but the root is at once without a
\* handler, without a static child and without a parameter child.
C26_NoBareLeaf ==
    \A pos \in Positions(root) \ { <<>> } :
        LET node == NodeAt(root, pos)
        IN  node.handler # None \/ node.next # <<>> \/ node.params # None

\* The tree holds a node below the root that has no handler of its own, and
\* a node that has no child.
C26_Witness ==
    /\ \E pos \in Positions(root) \ { <<>> } : NodeAt(root, pos).handler = None
    /\ \E pos \in Positions(root) \ { <<>> } :
           NodeAt(root, pos).next = <<>> /\ NodeAt(root, pos).params = None

(***************************************************************************)
(* The cursor of dispatch, one call of next at a time.                     *)
(***************************************************************************)
\* C27: once a call of next on a cursor has yielded nothing, because the
\* tokens were exhausted or because a token matched no child, every later
\* call of next on that cursor yields nothing too, even when tokens are left.
C27_NoneIsFinal ==
    [][ ( call.op = "iter" /\ call.done /\ call'.op = "iter" ) => call'.item = None ]_vars

\* The tokens the cursor of the call in progress was created with.
CursorTokens == split(trim_left_matches(call.request_path))

\* C28: dispatch terminates for every tree and path.  Each call of next on
\* the cursor takes one token and yields at most one node, a direct child of
\* the node yielded before (of the root for the first); with no token left it
\* yields nothing.  As long as every token has matched, the depth of the node
\* reached is the number of tokens taken, so a path of n segments that all
\* match ends at depth n; and dispatch returns what these calls, made until
\* the first that yields nothing, have yielded last.
C28_OneTokenOneDescentPerStep ==
    [][ ( call.op = "iter" /\ call'.op = "iter" )
          => /\ IF call.iter.tokens = <<>>
                THEN call'.item = None /\ call'.iter = call.iter
                ELSE /\ call'.iter.tokens = Tail(call.iter.tokens)
                     /\ \/ call'.item = None /\ call'.iter.previous = call.iter.previous
                        \/ /\ call'.item = Some(call'.iter.previous)
                           /\ call'.iter.previous \in Positions(root)
                           /\ Len(call'.iter.previous) = Len(call.iter.previous) + 1
                           /\ SubSeq(call'.iter.previous, 1, Len(call.iter.previous))
                                  = call.iter.previous
             /\ ~call'.done
                   => Len(call'.iter.previous) = Len(CursorTokens) - Len(call'.iter.tokens)
             /\ call'.done
                   => RouteTree_dispatch(root, call.request_path)
                        = IF call'.last = None THEN None
                          ELSE Some(Found(root, call'.last[1])) ]_vars

\* A cursor has taken two tokens that both matched and stands at depth two.
C28_Witness ==
    /\ call.op = "iter"
    /\ ~call.done
    /\ call.iter.tokens = <<>>
    /\ Len(CursorTokens) = 2
    /\ Len(call.iter.previous) = 2
    /\ call.item = Some(call.iter.previous)

\* C29: when the node the cursor stands on has no static child keyed by the
\* token but has a parameter child, next moves the cursor to the parameter
\* child and yields it, whatever the token is, the empty token included; the
\* cursor keeps the tokens left and the node only, and any other token
\* without a static child would have given the same result.
C29_ParamChildTakesAnyToken ==
    [][ ( /\ call.op = "iter"
          /\ call'.op = "iter"
          /\ call.iter.tokens # <<>>
          /\ Head(call.iter.tokens) \notin DOMAIN NodeAt(root, call.iter.previous).next
          /\ NodeAt(root, call.iter.previous).params # None )
          => /\ call'.item = Some(call.iter.previous \o <<ParamsEdge>>)
             /\ call'.iter = [ tokens |-> Tail(call.iter.tokens),
                               previous |-> call.iter.previous \o <<ParamsEdge>> ]
             /\ \A token \in WalkTokens \cup WalkSegments :
                    token \notin DOMAIN NodeAt(root, call.iter.previous).next
                        => Iter_next(root, [ call.iter EXCEPT
                                                !.tokens = <<token>> \o Tail(@) ])
                             = [ iter |-> call'.iter, item |-> call'.item ] ]_vars

\* The cursor has just moved to a parameter child for the empty token, at a
\* node that has a static child as well.
C29_Witness ==
    /\ call.op = "iter"
    /\ call.item # None
    /\ call.item = Some(call.iter.previous)
    /\ call.iter.previous[Len(call.iter.previous)] = ParamsEdge
    /\ CursorTokens[Len(CursorTokens) - Len(call.iter.tokens)] = <<>>
    /\ ParentOf(root, call.iter.previous).next # <<>>

(***************************************************************************)
(* The handler dispatch returns and the pattern it was registered with.    *)
(***************************************************************************)
\* The pattern matches the path segment for segment: as many segments, each
\* static segment equal to the segment of the path at its place, each
\* parameter segment paired with one segment of the path.
PatternMatchesPath(pattern, path) ==
    /\ Len(SegmentsOf(pattern)) = Len(SegmentsOf(path))
    /\ \A i \in 1..Len(SegmentsOf(pattern)) :
           starts_with_colon(SegmentsOf(pattern)[i])
               \/ SegmentsOf(pattern)[i] = SegmentsOf(path)[i]

\* C30: whenever dispatch(path) returns a handler, that handler was passed
\* by an add whose pattern matches the path segment for segment (patterns
\* with no empty segment, paths with no empty segment and no trailing slash).
C30_ReturnedHandlerMatchesPath ==
    ( /\ call.op = "dispatch"
      /\ call.value # None
      /\ call.value[1].handler # None
      /\ NoEmptySegment(call.request_path)
      /\ call.request_path = TrimmedRoute(call.request_path)
      /\ \A route \in AddedRoutes : NoEmptySegment(route) )
        => PatternMatchesPath(added[call.value[1].handler[1]], call.request_path)

(***************************************************************************)
(* The order of the add calls.                                             *)
(***************************************************************************)
\* C31: for two different patterns p and q with no parameter segment (and no
\* empty segment), add(p, hp); add(q, hq) and add(q, hq); add(p, hp) applied
\* to the same tree give equal trees: the same nodes, edges, full_paths and
\* handlers.  Stated for the last two adds accepted.
C31_StaticAddsCommute ==
    ( /\ Len(added) >= 2
      /\ \A route \in AddedRoutes : NoEmptySegment(route)
      /\ StaticRoute(added[Len(added) - 1])
      /\ StaticRoute(added[Len(added)])
      /\ TrimmedRoute(added[Len(added) - 1]) # TrimmedRoute(added[Len(added)]) )
        => root = RouteTree_add(
                      RouteTree_add(TreeAfter(Len(added) - 2),
                                    added[Len(added)], Len(added)).root,
                      added[Len(added) - 1], Len(added) - 1).root

(***************************************************************************)
(* Calls of add that fail.                                                 *)
(***************************************************************************)
\* C32: when Router::add(method, route, target) fails, the table of routes is
\* as it was before the call: no tree was created for a method that had none,
\* and dispatch returns for every method and path what it returned before.
C32_FailedRouterAddChangesNothing ==
    ( call.op = "router_add" /\ call.result # "Ok" )
        => /\ DOMAIN routes = DOMAIN call.before
           /\ routes = call.before
           /\ \A method \in Methods, route_path \in RouterStrings :
                  Router_dispatch(routes, method, route_path)
                      = Router_dispatch(call.before, method, route_path)

\* C33: when RouteTree::add returns an error, the tree is unchanged: no node
\* was created and no handler, that of the root included, was set or
\* replaced.
C33_FailedAddLeavesTree ==
    ( call.op = "add" /\ call.result # "Ok" )
        => /\ root = call.before
           /\ Positions(root) = Positions(call.before)
           /\ \A pos \in Positions(root) :
                  NodeAt(root, pos).handler = NodeAt(call.before, pos).handler

\* An add has returned an error on a tree that holds a handler on its root
\* and a node below it.
C33_Witness ==
    /\ call.op = "add"
    /\ call.result = "Err"
    /\ call.before.handler # None
    /\ Positions(call.before) # { <<>> }

DispatchOfRest(rest) ==
    IF rest = <<>> THEN Some(Found(root, <<>>))
    ELSE LET found == Iterator_last(root, RouteTree_iter(split(rest)), None)
         IN  IF found # None THEN Some(Found(root, found[1])) ELSE None

\* C35: dispatch removes one leading '/' from the request path and no more:
\* slashes that follow one another are not merged, so for a path with two
\* leading slashes such as "//a" the first token looked up under the root is
\* the empty segment, not "a".
C35_OneLeadingSlashIsStripped ==
    ( /\ call.op = "dispatch"
      /\ call.request_path # <<>>
      /\ call.request_path[1] = "/" )
        => call.value = DispatchOfRest(Tail(call.request_path))

\* The route without its last character when that is a '/'.
TrimOneTrailingSlash(route) ==
    IF route # <<>> /\ route[Len(route)] = "/"
    THEN SubSeq(route, 1, Len(route) - 1)
    ELSE route

\* What add does with the tokens of a route once they are known.
AddOfTokens(tree, tokens, handler) ==
    IF tokens[1] # <<>>
    THEN [ result |-> "Err", root |-> tree ]
    ELSE IF Len(tokens) = 1
    THEN [ result |-> "Ok", root |-> [tree EXCEPT !.handler = Some(handler)] ]
    ELSE LET acc == AddFold(tree, FoldStart, Tail(tokens))
         IN  RouteTree_wire_handler(tree, acc.last_existing, acc.created, handler)

\* C36: add removes a single trailing '/' from the route before it splits it
\* into tokens, so that "/a/" registers the node of "/a", while a route that
\* ends in two slashes registers a static child keyed by the empty string
\* beneath the node of what precedes them; empty segments inside a route are
\* kept as ordinary static segments.
C36_OneTrailingSlashIsTrimmed ==
    call.op = "add"
        => LET expected == AddOfTokens(call.before,
                                       split(TrimOneTrailingSlash(call.route)),
                                       call.handler)
           IN  call.result = expected.result /\ root = expected.root

(***************************************************************************)
(* The end of a Parse iterator.                                            *)
(***************************************************************************)
\* The number of pairs parse(route, path) can examine: the number of segments
\* of the shorter of the two.
PairsToExamine ==
    IF Len(split(call.route)) < Len(split(call.path))
    THEN Len(split(call.route)) ELSE Len(split(call.path))

\* C37: a Parse iterator is finite and single-pass.  The pairs it has
\* examined are never more than the smaller of the numbers of segments of the
\* pattern and of the path, each pair yielded is one of them, and once it has
\* returned None no pair is left, so that every later call returns None and
\* leaves the iterator as it is.
C37_ParseIsFiniteAndSinglePass ==
    call.op = "parse"
        => /\ Len(call.parse.source) <= PairsToExamine
           /\ Len(call.yielded) <= PairsToExamine - Len(call.parse.source)
           /\ call.done
                 => /\ call.parse.source = <<>>
                    /\ Parse_next(call.parse) = [ parse |-> call.parse, item |-> None ]

\* An iterator over a pattern and a path of different numbers of segments
\* has yielded a pair and then returned None.
C37_Witness ==
    /\ call.op = "parse"
    /\ call.done
    /\ call.yielded # <<>>
    /\ Len(split(call.route)) # Len(split(call.path))

====
